---- MODULE Spec2Model ----
(***************************************************************************)
(* A model of src/ui.py: the batch-result dashboard.                       *)
(*                                                                         *)
(*   process_json      raw results -> flat table, sorted by timestamp      *)
(*   filter_dataframe  quality / type predicates                           *)
(*   main              one script run: date filter, KPIs, cross-filter     *)
(*                     counts, final filter, navigation, record lookup     *)
(*   next_file / prev_file   the navigation callbacks                      *)
(*                                                                         *)
(* Strings the code takes apart (filenames, keys, statuses, flow           *)
(* descriptions) are sequences of one-character strings; strings the code  *)
(* only passes through are TLA+ strings.  A JSON member is a record with a *)
(* tag: "absent" (no such key), "null" (key present, value null) or "val". *)
(***************************************************************************)
EXTENDS Integers, Sequences, FiniteSets, TLC

----------------------------------------------------------------------------
(* Bounds of the model.                                                    *)

\* Longest raw s3_key, the scheme not counted.
MaxKeyLen == 5

\* Longest batch (the "results" array) of a file.
MaxLen == 3

----------------------------------------------------------------------------
(* Python's str operations, on sequences of characters.                    *)

DigitChars == <<"0","1","2","3","4","5","6","7","8","9">>

UpperChars == <<"A","B","C","D","E","F","G","H","I","J","K","L","M","N","O","P","Q","R","S","T","U","V","W","X","Y","Z">>

LowerChars == <<"a","b","c","d","e","f","g","h","i","j","k","l","m","n","o","p","q","r","s","t","u","v","w","x","y","z">>

\* The position of c in the alphabet t, 0 when it is not there.
PosIn(t, c) == IF \E i \in 1..Len(t) : t[i] = c THEN CHOOSE i \in 1..Len(t) : t[i] = c ELSE 0

\* str.lower()
Lower(s) == [i \in 1..Len(s) |-> IF PosIn(UpperChars, s[i]) > 0 THEN LowerChars[PosIn(UpperChars, s[i])] ELSE s[i]]

\* str.upper()
Upper(s) == [i \in 1..Len(s) |-> IF PosIn(LowerChars, s[i]) > 0 THEN UpperChars[PosIn(LowerChars, s[i])] ELSE s[i]]

\* str.isdigit(): non-empty and every character a digit.
IsDigit(s) == Len(s) > 0 /\ \A i \in 1..Len(s) : PosIn(DigitChars, s[i]) > 0

\* str.startswith(p)
StartsWith(s, p) == Len(s) >= Len(p) /\ SubSeq(s, 1, Len(p)) = p

\* p in s (substring test)
Contains(s, p) == \E i \in 1..(Len(s) - Len(p) + 1) : SubSeq(s, i, i + Len(p) - 1) = p

\* The first / last position of character c in s, 0 when there is none.
FirstPos(s, c) == IF \E i \in 1..Len(s) : s[i] = c THEN CHOOSE i \in 1..Len(s) : s[i] = c /\ \A j \in 1..(i-1) : s[j] # c ELSE 0

LastPos(s, c) == IF \E i \in 1..Len(s) : s[i] = c THEN CHOOSE i \in 1..Len(s) : s[i] = c /\ \A j \in (i+1)..Len(s) : s[j] # c ELSE 0

\* s.split(c): the segments between the occurrences of c.
RECURSIVE Split(_, _)
Split(s, c) == IF FirstPos(s, c) = 0 THEN <<s>> ELSE <<SubSeq(s, 1, FirstPos(s, c) - 1)>> \o Split(SubSeq(s, FirstPos(s, c) + 1, Len(s)), c)

\* s.split(c, 1): at most one split, at the first c.
Split1(s, c) == IF FirstPos(s, c) = 0 THEN <<s>> ELSE <<SubSeq(s, 1, FirstPos(s, c) - 1), SubSeq(s, FirstPos(s, c) + 1, Len(s))>>

\* s.rsplit(c, 1)[0]: what precedes the last c, the whole of s without one.
RSplit1Head(s, c) == IF LastPos(s, c) = 0 THEN s ELSE SubSeq(s, 1, LastPos(s, c) - 1)

\* s.split(c)[-1]: what follows the last c.
SplitLast(s, c) == SubSeq(s, LastPos(s, c) + 1, Len(s))

\* The number a string of digits denotes.
RECURSIVE DigitsValue(_)
DigitsValue(s) == IF Len(s) = 0 THEN 0 ELSE 10 * DigitsValue(SubSeq(s, 1, Len(s) - 1)) + (PosIn(DigitChars, s[Len(s)]) - 1)

----------------------------------------------------------------------------
(* Timestamps.  A timestamp is a record: nat (pd.NaT), date = yyyymmdd and *)
(* time = hhmmss; two such numbers order timestamps without leaving the    *)
(* range of TLC's integers.                                                *)

NaT == [nat |-> TRUE, date |-> 0, time |-> 0]

IsLeap(y) == (y % 4 = 0 /\ y % 100 # 0) \/ y % 400 = 0

DaysInMonth(y, m) == IF m = 2 THEN (IF IsLeap(y) THEN 29 ELSE 28) ELSE IF m \in {4, 6, 9, 11} THEN 30 ELSE 31

\* datetime.strptime(d, "%m%d%Y%H%M%S") on a string of exactly 14 digits:
\* every directive takes its full width, and a field out of range raises
\* ValueError, which the caller swallows (the timestamp stays NaT).
Strptime(d) ==
    LET mo == DigitsValue(SubSeq(d, 1, 2))
        dd == DigitsValue(SubSeq(d, 3, 4))
        yy == DigitsValue(SubSeq(d, 5, 8))
        hh == DigitsValue(SubSeq(d, 9, 10))
        mi == DigitsValue(SubSeq(d, 11, 12))
        ss == DigitsValue(SubSeq(d, 13, 14))
    IN  IF /\ mo \in 1..12
           /\ yy >= 1
           /\ dd \in 1..DaysInMonth(yy, mo)
           /\ hh <= 23 /\ mi <= 59 /\ ss <= 59
        THEN [nat |-> FALSE, date |-> yy * 10000 + mo * 100 + dd, time |-> hh * 10000 + mi * 100 + ss]
        ELSE NaT

\* Section 3 of process_json: the timestamp in the filename.
ExtractTimestamp(filename) ==
    LET name_clean == RSplit1Head(filename, ".")
        date_part  == SplitLast(name_clean, "_")
    IN  IF Len(date_part) = 14 /\ IsDigit(date_part) THEN Strptime(date_part) ELSE NaT

\* t1 later than t2 (both real timestamps).
TsGreater(t1, t2) == t1.date > t2.date \/ (t1.date = t2.date /\ t1.time > t2.time)

----------------------------------------------------------------------------
(* Raw results.  A member of a JSON object is [tag, v]: tag "absent" (no   *)
(* such key), "null" (the key is there, its value is null) or "val".       *)

AbsentS == [tag |-> "absent", v |-> <<>>]

NullS == [tag |-> "null", v |-> <<>>]

ValS(s) == [tag |-> "val", v |-> s]

AbsentT == [tag |-> "absent", v |-> ""]

NullT == [tag |-> "null", v |-> ""]

ValT(s) == [tag |-> "val", v |-> s]

AbsentN == [tag |-> "absent", v |-> 0]

NullN == [tag |-> "null", v |-> 0]

ValN(n) == [tag |-> "val", v |-> n]

\* The raw result {} : an object with no member.
EmptyObj ==
    [isNull |-> FALSE,
     input_filename |-> AbsentS,
     s3_key |-> AbsentS,
     decision |-> AbsentT,
     flow |-> [tag |-> "absent", v |-> <<>>],
     custom_quality_score |-> [tag |-> "absent", status |-> AbsentS, reason |-> AbsentT],
     analysis |-> [tag |-> "absent", overall_confidence |-> AbsentN],
     ocr |-> [tag |-> "absent", text |-> AbsentS],
     timings |-> [tag |-> "absent", total_duration |-> AbsentN]]

\* The raw result null.
JsonNull == [EmptyObj EXCEPT !.isNull = TRUE]

\* A step of the flow trace: a label, or a one-key mapping name -> description.
LabelStep(name) == [isDict |-> FALSE, key |-> name, desc |-> NullS]

DictStep(name, d) == [isDict |-> TRUE, key |-> name, desc |-> d]

\* Python's truth value of a raw result: None and {} are falsy.
Falsy(r) == r.isNull \/ r = EmptyObj

\* r.get(k) or "" for a string member.
StrOrEmpty(f) == IF f.tag = "val" THEN f.v ELSE <<>>

\* r.get(k) or {} for an object member: the members of the object, all
\* absent when the key is missing, null or an empty object.
ObjOrEmpty(o, empty) == IF o.tag = "val" THEN o ELSE empty

----------------------------------------------------------------------------
(* process_json, one raw result at a time.                                 *)

\* os.getenv("BUCKET_NAME", ""): the default container of the deployment.
BUCKET_NAME == <<"d","e","f","a","u","l","t","-","b","u","c","k","e","t">>

S3Scheme == <<"s","3",":","/","/">>

VectorPdfMark == <<"v","e","c","t","o","r","/","t","e","x","t"," ","P","D","F">>

NativePdf == "Native PDF (Vector)"

ImageScanned == "Image/Scanned"

\* The key split at its first "/" whether or not it carries the scheme.
ParseS3KeySplitsAlways(raw_s3_key) ==
    LET stripped == IF StartsWith(raw_s3_key, S3Scheme) THEN SubSeq(raw_s3_key, 6, Len(raw_s3_key)) ELSE raw_s3_key
        split_parts == Split1(stripped, "/")
    IN  IF Len(split_parts) > 1
        THEN [bucket |-> split_parts[1], key |-> split_parts[2]]
        ELSE [bucket |-> BUCKET_NAME, key |-> raw_s3_key]

\* Section 1: bucket and key of the raw s3_key.  split("/", 1) of a string
\* with no "/" has one part, [1] raises IndexError and the except branch
\* falls back to the default bucket and the raw string.
ParseS3Key(raw_s3_key) ==
    IF StartsWith(raw_s3_key, S3Scheme)
    THEN LET split_parts == Split1(SubSeq(raw_s3_key, 6, Len(raw_s3_key)), "/")
         IN  IF Len(split_parts) > 1
             THEN [bucket |-> split_parts[1], key |-> split_parts[2]]
             ELSE [bucket |-> BUCKET_NAME, key |-> raw_s3_key]
    ELSE [bucket |-> BUCKET_NAME, key |-> raw_s3_key]

\* Section 2: a step is a mapping that has the key pdf_scanned_check.
IsPdfCheck(step) == step.isDict /\ step.key = "pdf_scanned_check"

\* `"vector/text PDF" in step["pdf_scanned_check"]` raises TypeError when the
\* description is null.
FlowRaises(flow) == \E i \in 1..Len(flow) : IsPdfCheck(flow[i]) /\ flow[i].desc.tag # "val"

ProcessType(flow) ==
    IF \E i \in 1..Len(flow) : IsPdfCheck(flow[i]) /\ flow[i].desc.tag = "val" /\ Contains(flow[i].desc.v, VectorPdfMark)
    THEN NativePdf ELSE ImageScanned

\* Section 4: cqs.get("status", "N/A").lower() raises AttributeError when
\* status is there and null.
StatusRaises(cqs) == cqs.status.tag = "null"

QStatus(cqs) == IF cqs.status.tag = "val" THEN Lower(cqs.status.v) ELSE Lower(<<"N","/","A">>)

\* cqs.get("reason", "N/A"): None when reason is there and null.
QReason(cqs) == IF cqs.reason.tag = "absent" THEN [none |-> FALSE, v |-> "N/A"] ELSE [none |-> cqs.reason.tag = "null", v |-> cqs.reason.v]

\* d.get(k): None when the key is missing or null.
NumGet(f) == [none |-> f.tag # "val", v |-> f.v]

\* d.get(k, 0): the default only when the key is missing.
NumGetOr0(f) == IF f.tag = "absent" THEN [none |-> FALSE, v |-> 0] ELSE [none |-> f.tag = "null", v |-> f.v]

\* x or 100: 100 when x is None or 0.
Or100(x) == IF x.none \/ x.v = 0 THEN [none |-> FALSE, v |-> 100] ELSE x

\* Line 101.  The conditional expression binds weaker than `or`:
\*   (get("overall_confidence") or 100) if NativePdf else get("overall_confidence", 0)
Confidence(process_type, analysis) ==
    IF process_type = NativePdf THEN Or100(NumGet(analysis.overall_confidence)) ELSE NumGetOr0(analysis.overall_confidence)

\* Section 5: project and extension, of the clean key.
Project(actual_key) == IF Len(Split(actual_key, "/")) > 1 THEN Split(actual_key, "/")[2] ELSE <<"U","n","k","n","o","w","n">>

FileExt(actual_key) == IF FirstPos(actual_key, ".") > 0 THEN Upper(SplitLast(actual_key, ".")) ELSE <<"I","M","G">>

\* The body of the loop raises for this raw result.
RecordRaises(r) ==
    \/ FlowRaises(r.flow.v)
    \/ StatusRaises(ObjOrEmpty(r.custom_quality_score, EmptyObj.custom_quality_score))

\* The row the loop appends for raw result r, the idx-th row appended
\* (idx is the label the DataFrame gives the row).
FlattenRecord(r, idx) ==
    LET loc          == ParseS3Key(StrOrEmpty(r.s3_key))
        filename     == StrOrEmpty(r.input_filename)
        process_type == ProcessType(r.flow.v)
        cqs          == ObjOrEmpty(r.custom_quality_score, EmptyObj.custom_quality_score)
        analysis     == ObjOrEmpty(r.analysis, EmptyObj.analysis)
        ocr          == ObjOrEmpty(r.ocr, EmptyObj.ocr)
        timings      == ObjOrEmpty(r.timings, EmptyObj.timings)
    IN  [Index |-> idx,
         Filename |-> filename,
         Timestamp |-> ExtractTimestamp(filename),
         Decision |-> IF r.decision.tag = "val" /\ r.decision.v # "" THEN r.decision.v ELSE "N/A",
         Type |-> process_type,
         Quality_Status |-> QStatus(cqs),
         Quality_Reason |-> QReason(cqs),
         Confidence |-> Confidence(process_type, analysis),
         Project |-> Project(loc.key),
         File_Extension |-> FileExt(loc.key),
         Total_Duration |-> NumGetOr0(timings.total_duration),
         Text_Length |-> Len(StrOrEmpty(ocr.text)),
         S3_Bucket |-> loc.bucket,
         S3_Key |-> loc.key]

\* `if not r: continue`: the raw results the loop works on, in order.
RECURSIVE Truthy(_)
Truthy(results) == IF results = <<>> THEN <<>> ELSE (IF Falsy(Head(results)) THEN <<>> ELSE <<Head(results)>>) \o Truthy(Tail(results))

\* The loop raises as soon as one raw result does.
ProcessRaises(results) == \E i \in 1..Len(Truthy(results)) : RecordRaises(Truthy(results)[i])

\* flattened_data, when the loop ran to its end.
Flattened(results) == [i \in 1..Len(Truthy(results)) |-> FlattenRecord(Truthy(results)[i], i - 1)]

\* df.sort_values(by='Timestamp', ascending=False): timestamps descending,
\* NaT rows last in the order they had.  The default kind is quicksort, which
\* is not stable: rows of equal timestamp come out in an order the build
\* decides, so every order of ties is an outcome.
IsSortOutcome(rows, p) ==
    /\ \A i, j \in 1..Len(rows) : i # j => p[i] # p[j]
    /\ \A i, j \in 1..Len(rows) : i < j =>
          \/ rows[p[j]].Timestamp.nat /\ (rows[p[i]].Timestamp.nat => p[i] < p[j])
          \/ ~rows[p[j]].Timestamp.nat /\ ~rows[p[i]].Timestamp.nat /\ ~TsGreater(rows[p[j]].Timestamp, rows[p[i]].Timestamp)

SortOutcomes(rows) == {[i \in 1..Len(rows) |-> rows[p[i]]] : p \in {q \in [1..Len(rows) -> 1..Len(rows)] : IsSortOutcome(rows, q)}}

\* The tables process_json can return for a batch that does not raise.  An
\* empty flattened_data gives a DataFrame without columns, left unsorted.
ProcessJson(results) == IF Flattened(results) = <<>> THEN {<<>>} ELSE SortOutcomes(Flattened(results))

----------------------------------------------------------------------------
(* filter_dataframe and the tables of one script run.                      *)

S_pass == <<"p","a","s","s">>

S_fail == <<"f","a","i","l">>

QualityOptions == {"All", "pass", "fail", "na"}

TypeOptions == {"All", "pdf", "image"}

\* The boolean masks filter_dataframe and the counts index a table with.
IsPass(row) == row.Quality_Status = S_pass

IsFail(row) == row.Quality_Status = S_fail

IsNa(row) == row.Quality_Status \notin {S_pass, S_fail}

IsPdf(row) == row.Type = NativePdf

IsImage(row) == row.Type = ImageScanned

\* The quality branch with the "na" mask negating only 'pass'.
FilterQualityNaKeepsFail(t, quality_val) ==
    LET NotPass(row) == ~IsPass(row)
    IN  IF quality_val = "pass" THEN SelectSeq(t, IsPass)
        ELSE IF quality_val = "fail" THEN SelectSeq(t, IsFail)
        ELSE IF quality_val = "na" THEN SelectSeq(t, NotPass)
        ELSE t

\* Lines 172-177: the quality branch.
FilterQuality(t, quality_val) ==
    IF quality_val = "pass" THEN SelectSeq(t, IsPass)
    ELSE IF quality_val = "fail" THEN SelectSeq(t, IsFail)
    ELSE IF quality_val = "na" THEN SelectSeq(t, IsNa)
    ELSE t

\* Lines 179-182: the type branch.
FilterType(t, type_val) ==
    IF type_val = "pdf" THEN SelectSeq(t, IsPdf)
    ELSE IF type_val = "image" THEN SelectSeq(t, IsImage)
    ELSE t

filter_dataframe(t, quality_val, type_val) == FilterType(FilterQuality(t, quality_val), type_val)

\* The dates date_input offers: the calendar days from lo to hi.
IsCalendarDay(d) == (d \div 100) % 100 \in 1..12 /\ d % 100 \in 1..DaysInMonth(d \div 10000, (d \div 100) % 100)

Days(lo, hi) == {d \in lo..hi : IsCalendarDay(d)}

\* valid_dates = df['Timestamp'].dropna(), as dates.
ValidDates(t) == {t[i].Timestamp.date : i \in {j \in 1..Len(t) : ~t[j].Timestamp.nat}}

MinDate(t) == CHOOSE d \in ValidDates(t) : \A e \in ValidDates(t) : d <= e

MaxDate(t) == CHOOSE d \in ValidDates(t) : \A e \in ValidDates(t) : d >= e

\* Lines 231-241.  With no valid date the table is taken whole; so it is
\* while date_input holds one date only.  The mask compares the date of
\* each row with the two ends, and a comparison with NaT is False.
DateFiltered(t, date_range) ==
    IF ValidDates(t) # {} /\ Len(date_range) = 2
    THEN LET InRange(row) == ~row.Timestamp.nat /\ row.Timestamp.date >= date_range[1] /\ row.Timestamp.date <= date_range[2]
         IN  SelectSeq(t, InRange)
    ELSE t

\* Column sum, skipping missing values as pandas does.
RECURSIVE SumDuration(_)
SumDuration(t) == IF t = <<>> THEN 0 ELSE (IF Head(t).Total_Duration.none THEN 0 ELSE Head(t).Total_Duration.v) + SumDuration(Tail(t))

HasDuration(row) == ~row.Total_Duration.none

\* The KPIs with pass_count taken as the rows that did not fail.
KpisCountingUnrated(t) ==
    LET NotFail(row) == ~IsFail(row)
    IN  [total_files |-> Len(t),
         total_duration_sec |-> SumDuration(t),
         avg_duration_sec |-> [num |-> SumDuration(t), den |-> Len(SelectSeq(t, HasDuration))],
         pass_count |-> Len(SelectSeq(t, NotFail)),
         pass_rate |-> IF Len(t) > 0 THEN [num |-> Len(SelectSeq(t, NotFail)) * 100, den |-> Len(t)] ELSE [num |-> 0, den |-> 1]]

\* Lines 251-255: the top-level KPIs of a table.  The mean and the rate are
\* kept as fractions.
Kpis(t) ==
    [total_files |-> Len(t),
     total_duration_sec |-> SumDuration(t),
     avg_duration_sec |-> [num |-> SumDuration(t), den |-> Len(SelectSeq(t, HasDuration))],
     pass_count |-> Len(SelectSeq(t, IsPass)),
     pass_rate |-> IF Len(t) > 0 THEN [num |-> Len(SelectSeq(t, IsPass)) * 100, den |-> Len(t)] ELSE [num |-> 0, den |-> 1]]

\* The quality counts taken from the whole table, the type selection ignored.
QCountsIgnoringType(t, filter_type) ==
    [o \in QualityOptions |->
        IF o = "All" THEN Len(t)
        ELSE IF o = "pass" THEN Len(SelectSeq(t, IsPass))
        ELSE IF o = "fail" THEN Len(SelectSeq(t, IsFail))
        ELSE Len(SelectSeq(t, IsNa))]

\* Lines 277-283: the counts in the labels of the quality radio.
QCounts(t, filter_type) ==
    LET df_for_quality_counts == filter_dataframe(t, "All", filter_type)
    IN  [o \in QualityOptions |->
            IF o = "All" THEN Len(df_for_quality_counts)
            ELSE IF o = "pass" THEN Len(SelectSeq(df_for_quality_counts, IsPass))
            ELSE IF o = "fail" THEN Len(SelectSeq(df_for_quality_counts, IsFail))
            ELSE Len(SelectSeq(df_for_quality_counts, IsNa))]

\* Lines 303-308: the counts in the labels of the type radio.
TCounts(t, filter_quality) ==
    LET df_for_type_counts == filter_dataframe(t, filter_quality, "All")
    IN  [o \in TypeOptions |->
            IF o = "All" THEN Len(df_for_type_counts)
            ELSE IF o = "pdf" THEN Len(SelectSeq(df_for_type_counts, IsPdf))
            ELSE Len(SelectSeq(df_for_type_counts, IsImage))]

----------------------------------------------------------------------------
(* The session: st.session_state, the widgets, and what the last script    *)
(* run put on the page.                                                    *)

VARIABLES
    loaded,          \* a file is there (uploaded, or the default file)
    raw_data,        \* raw_data["results"] of the file
    df,              \* the table process_json returned (cached per file)
    filter_quality,  \* st.session_state.filter_quality
    filter_type,     \* st.session_state.filter_type
    file_index,      \* st.session_state.file_index
    date_widget,     \* <<min_date, max_date>> of the date_input on the page, <<>> without one
    date_range,      \* the value of that date_input: one date or two
    ui,              \* what the last script run rendered
    refilled         \* history: the last run rendered a list to navigate, the page before it had none

vars == <<loaded, raw_data, df, filter_quality, filter_type, file_index, date_widget, date_range, ui, refilled>>

\* A page on which nothing below the uploader is rendered.
BlankUi ==
    [stage |-> "upload",
     kpi |-> Kpis(<<>>),
     q_counts |-> [o \in QualityOptions |-> 0],
     t_counts |-> [o \in TypeOptions |-> 0],
     df_date_filtered |-> <<>>,
     df_final |-> <<>>,
     nav |-> FALSE,
     file_options |-> <<>>,
     prev_disabled |-> TRUE,
     next_disabled |-> TRUE,
     selected_filename |-> <<>>,
     lookup |-> "none",
     record_pos |-> 0,
     file_row |-> 0]

\* list.index(x): the first position of x (here counted from 1).
ListIndex(l, x) == CHOOSE i \in 1..Len(l) : l[i] = x /\ \A j \in 1..(i-1) : l[j] # x

\* Line 388: next((r for r in raw_data["results"] if r["input_filename"] ==
\* selected_filename), None).  The generator subscripts every raw result
\* up to the first match: r["input_filename"] raises TypeError on null and
\* KeyError on an object without that key.  The result is the position of
\* the record, 0 for None, -1 when the expression raises.
RECURSIVE LookupFrom(_, _, _)
LookupFrom(results, name, i) ==
    IF i > Len(results) THEN 0
    ELSE IF results[i].isNull \/ results[i].input_filename.tag = "absent" THEN -1
    ELSE IF results[i].input_filename.tag = "val" /\ results[i].input_filename.v = name THEN i
    ELSE LookupFrom(results, name, i + 1)

LookupRecord(results, name) == LookupFrom(results, name, 1)

\* Mutant of RangeCheck: the comparison off by one.
RangeCheckOffByOne(index, total_files) == IF index > total_files THEN 0 ELSE index

\* Lines 363-364: the range check of the navigation logic.
RangeCheck(index, total_files) == IF index >= total_files THEN 0 ELSE index

\* Line 382: the position (from 0) the selected filename has in the options.
SelectionIndex(file_options, selected_filename) == ListIndex(file_options, selected_filename) - 1

\* Lines 187-191: the button callbacks.
next_file(index) == index + 1

prev_file(index) == index - 1

\* The date_input of this run: the one of the last run, with its value, when
\* it has the same bounds; a new one, at its default (min, max), otherwise.
DateValue(s, lo, hi) == IF s.date_widget = <<lo, hi>> THEN s.date_range ELSE <<lo, hi>>

\* One run of main() on session state s; picked is the position the user
\* chose in the selectbox just before this run, 0 when the run has another
\* cause (the selectbox then shows options[file_index]).  The result is the
\* session state the run leaves and the page it rendered.  st.rerun() starts
\* the script again, with the session state as it is at that point.
RECURSIVE Main(_, _)
Main(s, picked) ==
    LET out(stage, dw, dr, page) == [file_index |-> s.file_index, date_widget |-> dw, date_range |-> dr, ui |-> [page EXCEPT !.stage = stage]]
    IN
    IF ~s.loaded THEN out("upload", <<>>, <<>>, BlankUi)
    ELSE IF ProcessRaises(s.raw_data) THEN out("process_json raised", <<>>, <<>>, BlankUi)
    ELSE IF s.df = <<>> THEN out("KeyError: Timestamp", <<>>, <<>>, BlankUi)
    ELSE
    LET has_dates == ValidDates(s.df) # {}
        dw == IF has_dates THEN <<MinDate(s.df), MaxDate(s.df)>> ELSE <<>>
        dr == IF has_dates THEN DateValue(s, MinDate(s.df), MaxDate(s.df)) ELSE <<>>
        df_date_filtered == DateFiltered(s.df, dr)
    IN
    IF df_date_filtered = <<>> THEN out("no records in range", dw, dr, BlankUi)
    ELSE
    LET df_final == filter_dataframe(df_date_filtered, s.filter_quality, s.filter_type)
        page == [BlankUi EXCEPT
                    !.kpi = Kpis(df_date_filtered),
                    !.q_counts = QCounts(df_date_filtered, s.filter_type),
                    !.t_counts = TCounts(df_date_filtered, s.filter_quality),
                    !.df_date_filtered = df_date_filtered,
                    !.df_final = df_final]
    IN
    IF df_final = <<>> THEN out("dashboard", dw, dr, page)
    ELSE
    LET file_options == [i \in 1..Len(df_final) |-> df_final[i].Filename]
        total_files == Len(file_options)
        index == RangeCheck(s.file_index, total_files)
        navpage == [page EXCEPT
                    !.nav = TRUE,
                    !.file_options = file_options,
                    !.prev_disabled = (index = 0),
                    !.next_disabled = (index = total_files - 1)]
    IN
    IF index < 0 \/ index >= total_files
    THEN \* st.selectbox refuses an index outside the options
         [out("selectbox raised", dw, dr, navpage) EXCEPT !.file_index = index]
    ELSE
    LET selected_filename == IF picked > 0 THEN file_options[picked] ELSE file_options[index + 1]
        current_selection_index == SelectionIndex(file_options, selected_filename)
    IN
    IF current_selection_index # index
    THEN Main([s EXCEPT !.file_index = current_selection_index, !.date_widget = dw, !.date_range = dr], 0)
    ELSE
    LET record_pos == LookupRecord(s.raw_data, selected_filename)
        shown == [navpage EXCEPT
                    !.selected_filename = selected_filename,
                    !.record_pos = record_pos,
                    !.lookup = IF record_pos < 0 THEN "raised" ELSE IF record_pos = 0 THEN "none" ELSE "shown",
                    !.file_row = IF record_pos > 0 THEN ListIndex(file_options, selected_filename) ELSE 0]
    IN  [out(IF record_pos < 0 THEN "lookup raised" ELSE "dashboard", dw, dr, shown) EXCEPT !.file_index = index]

----------------------------------------------------------------------------
(* The raw results the batches are made of.                                *)

\* Native PDF, passed, 15 Jan 2025 09:30:00, no confidence given.
RawA ==
    [EmptyObj EXCEPT
        !.input_filename = ValS(<<"a","_","0","1","1","5","2","0","2","5","0","9","3","0","0","0",".","p","d","f">>),
        !.s3_key = ValS(<<"s","3",":","/","/","m","b","/","P","A","/","a",".","p","d","f">>),
        !.decision = ValT("accept"),
        !.flow = [tag |-> "val", v |-> <<DictStep("pdf_scanned_check", ValS(<<"v","e","c","t","o","r","/","t","e","x","t"," ","P","D","F"," ","d","e","t","e","c","t","e","d">>))>>],
        !.custom_quality_score = [tag |-> "val", status |-> ValS(<<"P","A","S","S">>), reason |-> ValT("")],
        !.ocr = [tag |-> "val", text |-> ValS(<<"h","i">>)],
        !.timings = [tag |-> "val", total_duration |-> ValN(2)]]

\* Scanned image, failed, 17 Jan 2025 10:15:00, confidence 85.
RawB ==
    [EmptyObj EXCEPT
        !.input_filename = ValS(<<"b","_","0","1","1","7","2","0","2","5","1","0","1","5","0","0",".","j","p","g">>),
        !.s3_key = ValS(<<"P","B","/","f",".","j","p","g">>),
        !.flow = [tag |-> "val", v |-> <<LabelStep("start"), DictStep("pdf_scanned_check", ValS(<<"s","c","a","n","n","e","d"," ","i","m","a","g","e">>))>>],
        !.custom_quality_score = [tag |-> "val", status |-> ValS(<<"f","a","i","l">>), reason |-> ValT("blurry")],
        !.analysis = [tag |-> "val", overall_confidence |-> ValN(85)],
        !.timings = [tag |-> "val", total_duration |-> ValN(3)]]

\* The filename (and so the timestamp) of RawB again: a native PDF, passed,
\* with an explicit confidence of 0.
RawB2 ==
    [EmptyObj EXCEPT
        !.input_filename = RawB.input_filename,
        !.s3_key = ValS(<<"s","3",":","/","/","x">>),
        !.flow = RawA.flow,
        !.custom_quality_score = [tag |-> "val", status |-> ValS(<<"p","a","s","s">>), reason |-> AbsentT],
        !.analysis = [tag |-> "val", overall_confidence |-> ValN(0)],
        !.timings = [tag |-> "val", total_duration |-> ValN(1)]]

\* No timestamp in the filename, no quality score, no flow, the confidence null.
RawC ==
    [EmptyObj EXCEPT
        !.input_filename = ValS(<<"c",".","p","d","f">>),
        !.decision = NullT,
        !.analysis = [tag |-> "val", overall_confidence |-> NullN]]

\* custom_quality_score.status is there and null.
RawD ==
    [EmptyObj EXCEPT
        !.input_filename = ValS(<<"d","_","2","0","2","5","0","1","1","5",".","p","n","g">>),
        !.custom_quality_score = [tag |-> "val", status |-> NullS, reason |-> NullT]]

\* The description of pdf_scanned_check is null.
RawE ==
    [EmptyObj EXCEPT
        !.input_filename = ValS(<<"e","_","1","3","4","5","2","0","2","5","0","9","3","0","0","0",".","p","d","f">>),
        !.flow = [tag |-> "val", v |-> <<DictStep("pdf_scanned_check", NullS)>>]]

RawPool == {JsonNull, RawA, RawB, RawB2, RawC, RawD, RawE}

\* The batches of at most n raw results, each one of the pool at most once
\* (RawB and RawB2 are two results for one filename).
Batches(n) == UNION {{b \in [1..k -> RawPool] : \A i, j \in 1..k : i # j => b[i] # b[j]} : k \in 0..n}

----------------------------------------------------------------------------
(* The state machine.                                                      *)

Session == [loaded |-> loaded, raw_data |-> raw_data, df |-> df, filter_quality |-> filter_quality, filter_type |-> filter_type, file_index |-> file_index, date_widget |-> date_widget, date_range |-> date_range]

\* The script runs after an interaction that left session state s.
Rerun(s, picked) ==
    \E run \in {Main(s, picked)} :
        /\ file_index' = run.file_index
        /\ date_widget' = run.date_widget
        /\ date_range' = run.date_range
        /\ ui' = run.ui
        /\ refilled' = (loaded /\ ~ui.nav /\ run.ui.nav)

\* Lines 197-199: a fresh session, before any file is there.
Init ==
    /\ loaded = FALSE
    /\ raw_data = <<>>
    /\ df = <<>>
    /\ filter_quality = "All"
    /\ filter_type = "All"
    /\ file_index = 0
    /\ date_widget = <<>>
    /\ date_range = <<>>
    /\ ui = BlankUi
    /\ refilled = FALSE

\* The file arrives (upload, or the default file): process_json runs on it
\* (line 224), then the rest of the script.  A session works on one file.
Upload ==
    /\ ~loaded
    /\ \E b \in Batches(MaxLen) :
       \E t \in (IF ProcessRaises(b) THEN {<<>>} ELSE ProcessJson(b)) :
          /\ loaded' = TRUE
          /\ raw_data' = b
          /\ df' = t
          /\ UNCHANGED <<filter_quality, filter_type>>
          /\ Rerun([Session EXCEPT !.loaded = TRUE, !.raw_data = b, !.df = t], 0)

\* The quality radio (key filter_quality), rendered on the dashboard.
SetQuality ==
    \E q \in QualityOptions \ {filter_quality} :
        /\ ui.stage \in {"dashboard", "lookup raised", "selectbox raised"}
        /\ filter_quality' = q
        /\ UNCHANGED <<loaded, raw_data, df, filter_type>>
        /\ Rerun([Session EXCEPT !.filter_quality = q], 0)

\* The type radio (key filter_type).
SetType ==
    \E t \in TypeOptions \ {filter_type} :
        /\ ui.stage \in {"dashboard", "lookup raised", "selectbox raised"}
        /\ filter_type' = t
        /\ UNCHANGED <<loaded, raw_data, df, filter_quality>>
        /\ Rerun([Session EXCEPT !.filter_type = t], 0)

\* The values date_input can take between its bounds: a range, or its
\* first date alone while the user is choosing the second.
DateChoices(lo, hi) == {<<a, b>> : a, b \in Days(lo, hi)} \cup {<<a>> : a \in Days(lo, hi)}

SetDateRange ==
    /\ date_widget # <<>>
    /\ \E r \in DateChoices(date_widget[1], date_widget[2]) \ {date_range} :
        /\ Len(r) = 2 => r[1] <= r[2]
        /\ UNCHANGED <<loaded, raw_data, df, filter_quality, filter_type>>
        /\ Rerun([Session EXCEPT !.date_range = r], 0)

\* The Next button (line 372): its callback, then the script.
ClickNext ==
    /\ ui.nav /\ ~ui.next_disabled
    /\ UNCHANGED <<loaded, raw_data, df, filter_quality, filter_type>>
    /\ Rerun([Session EXCEPT !.file_index = next_file(file_index)], 0)

\* The Prev button (line 369).
ClickPrev ==
    /\ ui.nav /\ ~ui.prev_disabled
    /\ UNCHANGED <<loaded, raw_data, df, filter_quality, filter_type>>
    /\ Rerun([Session EXCEPT !.file_index = prev_file(file_index)], 0)

\* The selectbox (line 375): the user chooses the k-th option.
SelectFile ==
    \E k \in 1..Len(ui.file_options) :
        /\ ui.nav /\ ui.stage # "selectbox raised"
        /\ k # file_index + 1
        /\ UNCHANGED <<loaded, raw_data, df, filter_quality, filter_type>>
        /\ Rerun(Session, k)

\* The characters the keys below are written with.
KeyChars == {"p", "f", ".", "/"}

\* The raw keys of at most n characters after the scheme, with it and without.
Keys(n) ==
    LET bodies == UNION {[1..k -> KeyChars] : k \in 0..n}
    IN  bodies \cup {S3Scheme \o b : b \in bodies}

\* A file of one raw result, RawB with the s3_key replaced, arrives:
\* process_json (line 224) and the rest of the script run on it.
UploadKeyed ==
    /\ ~loaded
    /\ \E k \in Keys(MaxKeyLen) :
       \E b \in {<<[RawB EXCEPT !.s3_key = ValS(k)]>>} :
       \E t \in ProcessJson(b) :
          /\ loaded' = TRUE
          /\ raw_data' = b
          /\ df' = t
          /\ UNCHANGED <<filter_quality, filter_type>>
          /\ Rerun([Session EXCEPT !.loaded = TRUE, !.raw_data = b, !.df = t], 0)

Next == Upload \/ SetQuality \/ SetType \/ SetDateRange \/ ClickNext \/ ClickPrev \/ SelectFile

Spec == Init /\ [][Next]_vars

\* process_json on one raw result, over the raw keys.
NextKeyed == UploadKeyed

SpecKeyed == Init /\ [][NextKeyed]_vars

----------------------------------------------------------------------------
(* Claims.                                                                 *)

\* C1: whenever the script has rendered a non-empty list of files to
\* navigate, 0 <= file_index < length of that list; so it is after any
\* sequence of next, prev, selection, filter and date-range changes, also
\* when the list was empty in between.
C1_NavigationBounds == ui.nav => (ui.stage # "selectbox raised" /\ 0 <= file_index /\ file_index < Len(ui.file_options))

\* C1 witness: a list is rendered again after a page that had none, and the
\* index the session kept through the empty page is not 0.
C1_Witness == refilled /\ ui.nav /\ file_index >= 1 /\ Len(ui.file_options) >= 2

\* The filenames of a list are pairwise different.
NoDuplicates(l) == \A i, j \in 1..Len(l) : i # j => l[i] # l[j]

\* C2: when the list of files changes to a new non-empty list, file_index
\* becomes 0 exactly when the old file_index is >= the length of the new
\* list, and is otherwise what it was, whatever the filenames are.
C2_DatasetChanged == [][(ui'.nav /\ ui'.file_options # ui.file_options) => file_index' = (IF file_index >= Len(ui'.file_options) THEN 0 ELSE file_index)]_vars

\* C2, for lists of pairwise different filenames only.
C2_DatasetChangedNoDuplicates == [][(ui'.nav /\ ui'.file_options # ui.file_options /\ NoDuplicates(ui'.file_options)) => file_index' = (IF file_index >= Len(ui'.file_options) THEN 0 ELSE file_index)]_vars

\* file_index once the script has run after the Next / Prev callback.
AfterNext == Main([Session EXCEPT !.file_index = next_file(file_index)], 0).file_index

AfterPrev == Main([Session EXCEPT !.file_index = prev_file(file_index)], 0).file_index

\* C3: on every rendered list, whatever the filenames are, Next at an index
\* that is not the last leaves file_index + 1, Prev at an index > 0 leaves
\* file_index - 1, and Next at the last index and Prev at 0 are blocked.
C3_StepOperations ==
    ui.nav =>
        /\ ui.next_disabled = (file_index = Len(ui.file_options) - 1)
        /\ ui.prev_disabled = (file_index = 0)
        /\ ~ui.next_disabled => AfterNext = file_index + 1
        /\ ~ui.prev_disabled => AfterPrev = file_index - 1

\* C3, for lists of pairwise different filenames only.
C3_StepOperationsNoDuplicates == (ui.nav /\ NoDuplicates(ui.file_options)) => C3_StepOperations

\* The predicates of the two filter dimensions, as the specification words them.
QualityHolds(q, row) ==
    \/ q = "All"
    \/ q = "pass" /\ row.Quality_Status = <<"p","a","s","s">>
    \/ q = "fail" /\ row.Quality_Status = <<"f","a","i","l">>
    \/ q = "na" /\ row.Quality_Status # <<"p","a","s","s">> /\ row.Quality_Status # <<"f","a","i","l">>

TypeHolds(t, row) ==
    \/ t = "All"
    \/ t = "pdf" /\ row.Type = "Native PDF (Vector)"
    \/ t = "image" /\ row.Type = "Image/Scanned"

\* The radios are on the page.
RadiosRendered == ui.stage \in {"dashboard", "lookup raised", "selectbox raised"}

\* C4: the count shown for option V of a dimension is the number of rows of
\* the date-filtered table that satisfy the other dimension's selected
\* predicate and have the value V (every row, for V = All); the dimension's
\* own selection plays no part.
C4_CrossFilterCounts ==
    RadiosRendered =>
        /\ \A v \in QualityOptions : ui.q_counts[v] = Cardinality({i \in 1..Len(ui.df_date_filtered) : TypeHolds(filter_type, ui.df_date_filtered[i]) /\ QualityHolds(v, ui.df_date_filtered[i])})
        /\ \A v \in TypeOptions : ui.t_counts[v] = Cardinality({i \in 1..Len(ui.df_date_filtered) : QualityHolds(filter_quality, ui.df_date_filtered[i]) /\ TypeHolds(v, ui.df_date_filtered[i])})

\* C4 witness: both dimensions are selected, and the counts shown for the
\* other options differ from the number of rows the selection keeps.
C4_Witness ==
    /\ RadiosRendered
    /\ filter_quality = "fail" /\ filter_type = "image"
    /\ ui.q_counts["na"] = 1 /\ ui.q_counts["pass"] = 0 /\ ui.q_counts["fail"] = 1
    /\ ui.t_counts["pdf"] = 0 /\ ui.t_counts["image"] = 1
    /\ Len(ui.df_date_filtered) = 3

\* The rows of table t that satisfy both predicates, in the order of t.
Matching(t, q, ty) == LET Both(row) == QualityHolds(q, row) /\ TypeHolds(ty, row) IN SelectSeq(t, Both)

\* C5: for every table and selection (q, t), filter_dataframe returns
\* exactly the rows that satisfy both predicates, in their order, and
\* filtering the result again with the same selection changes nothing.
C5_FilterSemantics ==
    \A q \in QualityOptions, ty \in TypeOptions : \A t \in {df, ui.df_date_filtered} :
        /\ filter_dataframe(t, q, ty) = Matching(t, q, ty)
        /\ filter_dataframe(filter_dataframe(t, q, ty), q, ty) = filter_dataframe(t, q, ty)

\* C5 witness: a table with passed, failed and unrated rows of both types,
\* of which the selection on the page keeps one.
C5_Witness ==
    /\ Len(df) = 3
    /\ \A q \in {"pass", "fail", "na"} : Len(filter_dataframe(df, q, "All")) = 1
    /\ Len(filter_dataframe(df, "All", "pdf")) = 1
    /\ filter_quality = "na" /\ filter_type = "image"
    /\ Len(ui.df_final) = 1 /\ Len(ui.df_date_filtered) = 3

\* The sum of the durations of the first n rows of t, absent ones skipped.
RECURSIVE DurationOfFirst(_, _)
DurationOfFirst(t, n) == IF n = 0 THEN 0 ELSE DurationOfFirst(t, n - 1) + (IF t[n].Total_Duration.none THEN 0 ELSE t[n].Total_Duration.v)

PassedRows(t) == {i \in 1..Len(t) : t[i].Quality_Status = <<"p","a","s","s">>}

\* C6 as claimed: the KPI total count is the number of records of the
\* table the current FilterSelection keeps, the one navigation walks, and
\* the pass rate is that table's.
C6_KpiOfSelection ==
    RadiosRendered =>
        /\ ui.kpi.total_files = Len(ui.df_final)
        /\ ui.kpi.pass_count = Cardinality(PassedRows(ui.df_final))

\* C6 (amended): the KPI values are those of the date-range-filtered table,
\* before the FilterSelection is applied, whatever qualityFilter and
\* typeFilter are: the total count is its number of records (never less
\* than the length of the navigation list), the sum and mean are over its
\* durations, and the pass rate is passCount / total * 100 of that table.
C6_KpiOfDateFiltered ==
    RadiosRendered =>
        /\ ui.kpi.total_files = Len(ui.df_date_filtered)
        /\ ui.kpi.total_files > 0
        /\ ui.kpi.total_files >= Len(ui.df_final)
        /\ ui.kpi.total_duration_sec = DurationOfFirst(ui.df_date_filtered, Len(ui.df_date_filtered))
        /\ ui.kpi.avg_duration_sec.num = ui.kpi.total_duration_sec
        /\ ui.kpi.avg_duration_sec.den = Cardinality({i \in 1..Len(ui.df_date_filtered) : ~ui.df_date_filtered[i].Total_Duration.none})
        /\ ui.kpi.pass_count = Cardinality(PassedRows(ui.df_date_filtered))
        /\ ui.kpi.pass_rate.num = 100 * ui.kpi.pass_count
        /\ ui.kpi.pass_rate.den = ui.kpi.total_files

\* C6 witness: a selection that keeps one of three records, one of the
\* others passed; the KPIs still count three records and one pass.
C6_Witness ==
    /\ RadiosRendered
    /\ filter_quality = "fail"
    /\ Len(ui.df_final) = 1
    /\ ui.kpi.total_files = 3
    /\ ui.kpi.pass_count = 1
    /\ ui.kpi.total_duration_sec > 0

\* C7: process_json does not raise on a raw result that is a non-null,
\* non-empty object, whatever fields of it are absent, null or malformed,
\* and emits exactly one row for each such raw result of the batch.
C7_FieldFailurePolicy ==
    loaded =>
        /\ ui.stage # "process_json raised"
        /\ Len(df) = Cardinality({i \in 1..Len(raw_data) : ~raw_data[i].isNull /\ raw_data[i] # EmptyObj})

\* The batch has a null entry, and every other entry is one process_json
\* flattens without raising.
NullAmongSound(results) ==
    /\ \E i \in 1..Len(results) : results[i].isNull
    /\ \A i \in 1..Len(results) : ~results[i].isNull => (~RecordRaises(results[i]) /\ results[i].input_filename.tag = "val")

\* C8: the null entries of a batch are skipped and not counted, and nothing
\* done later in the session (building the table, filtering, navigating,
\* looking up the inspected record) raises because of them.
C8_NullEntriesSilent ==
    (loaded /\ NullAmongSound(raw_data)) =>
        /\ Len(df) = Cardinality({i \in 1..Len(raw_data) : ~raw_data[i].isNull})
        /\ ui.stage \in {"dashboard", "no records in range"}

\* C9: with FilterSelection (All, All) and the date range left at its
\* default, the navigable list holds every row of the table, the rows
\* without a timestamp last.
C9_TimestamplessReviewable ==
    (loaded /\ df # <<>> /\ filter_quality = "All" /\ filter_type = "All" /\ date_range = date_widget) =>
        /\ ui.nav
        /\ ui.file_options = [i \in 1..Len(df) |-> df[i].Filename]
        /\ \A i, j \in 1..Len(df) : (df[i].Timestamp.nat /\ ~df[j].Timestamp.nat) => j < i

\* C10: the confidence of every row is a number: the overall_confidence the
\* raw result provides (0 included), else 100 for a native PDF and 0 for
\* any other document.
C10_ConfidenceRule ==
    \A i \in 1..Len(df) :
        LET r == Truthy(raw_data)[df[i].Index + 1]
            provided == (IF r.analysis.tag = "val" THEN r.analysis ELSE EmptyObj.analysis).overall_confidence
        IN  /\ ~df[i].Confidence.none
            /\ df[i].Confidence.v = (IF provided.tag = "val" THEN provided.v ELSE IF df[i].Type = "Native PDF (Vector)" THEN 100 ELSE 0)

\* The raw key of the only raw result of the file.
OnlyKey == raw_data[1].s3_key.v

\* A key "P/F.ext" with no scheme: one "/", P and F not empty, and a "."
\* with something after it in the part that follows the "/".
IsProjectFileKey(k) ==
    /\ ~(Len(k) >= 5 /\ SubSeq(k, 1, 5) = <<"s","3",":","/","/">>)
    /\ Cardinality({i \in 1..Len(k) : k[i] = "/"}) = 1
    /\ \E i, j \in 1..Len(k) : k[i] = "/" /\ k[j] = "." /\ 1 < i /\ i + 1 < j /\ j < Len(k)

\* The position of the "/" of such a key, and of its last ".".
SlashOf(k) == CHOOSE i \in 1..Len(k) : k[i] = "/"

DotOf(k) == CHOOSE j \in 1..Len(k) : k[j] = "." /\ \A m \in (j + 1)..Len(k) : k[m] # "."

KeyedCase == loaded /\ Len(raw_data) = 1 /\ raw_data[1].s3_key.tag = "val" /\ IsProjectFileKey(OnlyKey)

\* C11 as claimed: a raw key "P/F.ext" with no scheme gives the default
\* container, the raw key unchanged, the project P and the upper-cased
\* suffix as file extension.
C11_SchemeLessKey ==
    KeyedCase =>
        /\ Len(df) = 1
        /\ df[1].S3_Bucket = BUCKET_NAME
        /\ df[1].S3_Key = OnlyKey
        /\ df[1].Project = SubSeq(OnlyKey, 1, SlashOf(OnlyKey) - 1)
        /\ df[1].File_Extension = Upper(SubSeq(OnlyKey, DotOf(OnlyKey) + 1, Len(OnlyKey)))

\* C11 (amended): a raw key "P/F.ext" with no scheme gives the default
\* container, the raw key unchanged, the upper-cased suffix as file
\* extension, and as project the second "/"-delimited segment of the key,
\* which is F.ext.
C11_SchemeLessKeySecondSegment ==
    KeyedCase =>
        /\ Len(df) = 1
        /\ df[1].S3_Bucket = BUCKET_NAME
        /\ df[1].S3_Key = OnlyKey
        /\ df[1].Project = SubSeq(OnlyKey, SlashOf(OnlyKey) + 1, Len(OnlyKey))
        /\ df[1].File_Extension = Upper(SubSeq(OnlyKey, DotOf(OnlyKey) + 1, Len(OnlyKey)))

\* C11 witness: the key "p/f.p" has been resolved: project "f.p", extension "P".
C11_Witness ==
    /\ KeyedCase
    /\ OnlyKey = <<"p", "/", "f", ".", "p">>
    /\ df[1].Project = <<"f", ".", "p">>
    /\ df[1].File_Extension = <<"P">>
    /\ df[1].S3_Bucket = <<"d","e","f","a","u","l","t","-","b","u","c","k","e","t">>

\* C12: the table process_json returns is a permutation of the normalized
\* records, ordered by timestamp descending, the records without a
\* timestamp after every record that has one, and records of equal
\* timestamp (and those without one) in the order they had in the input.
C12_StableOrdering ==
    (loaded /\ ~ProcessRaises(raw_data)) =>
        /\ Len(df) = Len(Truthy(raw_data))
        /\ \A n \in 1..Len(df) : \E i \in 1..Len(df) : df[i] = FlattenRecord(Truthy(raw_data)[n], n - 1)
        /\ \A i, j \in 1..Len(df) : i < j =>
              /\ df[i].Timestamp.nat => df[j].Timestamp.nat
              /\ (~df[i].Timestamp.nat /\ ~df[j].Timestamp.nat) =>
                    \/ df[i].Timestamp.date > df[j].Timestamp.date
                    \/ df[i].Timestamp.date = df[j].Timestamp.date /\ df[i].Timestamp.time >= df[j].Timestamp.time
              /\ df[i].Timestamp = df[j].Timestamp => df[i].Index < df[j].Index

\* C12 without the order of rows of equal timestamp: a permutation,
\* timestamps descending, rows without a timestamp last in input order.
C12_OrderingUpToTies ==
    (loaded /\ ~ProcessRaises(raw_data)) =>
        /\ Len(df) = Len(Truthy(raw_data))
        /\ \A n \in 1..Len(df) : \E i \in 1..Len(df) : df[i] = FlattenRecord(Truthy(raw_data)[n], n - 1)
        /\ \A i, j \in 1..Len(df) : i < j =>
              /\ df[i].Timestamp.nat => df[j].Timestamp.nat
              /\ (~df[i].Timestamp.nat /\ ~df[j].Timestamp.nat) =>
                    \/ df[i].Timestamp.date > df[j].Timestamp.date
                    \/ df[i].Timestamp.date = df[j].Timestamp.date /\ df[i].Timestamp.time >= df[j].Timestamp.time
              /\ (df[i].Timestamp.nat /\ df[j].Timestamp.nat) => df[i].Index < df[j].Index

====
